---- MODULE Spec2Model ----
(***************************************************************************)
(* A model of src/src/App.tsx: the password generator (generatePassword,   *)
(* getRandomInt), the history store (pruneOldPasswords, sortByNewest,      *)
(* loadHistory, saveHistory) and the App component's state and handlers.   *)
(*                                                                         *)
(* Representation.  TLC's integers are 32 bits wide while the program's    *)
(* numbers are doubles, so a millisecond count t is held as two limbs,     *)
(* [d |-> t \div DAY_MS, ms |-> t % DAY_MS], and a Uint32 as two 16-bit    *)
(* limbs.  A string that the code indexes is a sequence of one-character   *)
(* strings.  An ISO-8601 string is the record of its date and clock        *)
(* fields; an entry id `${now}-${suffix}` is the pair <<now, suffix>>.     *)
(* A JSON text is [kind, items]: kind "array" with one item per element    *)
(* (the triple of an object's fields in serialization order, or JNull),    *)
(* "object" (valid JSON that is no array), "syntax" (not JSON), "empty"    *)
(* (the empty string).                                                     *)
(***************************************************************************)
EXTENDS Integers, Sequences, FiniteSets, TLC

\* useUppercase .. length   the five option states of App (lines 83-87)
\* currentPassword, error   App state (lines 89-90)
\* history                  App state, PasswordEntry[] (lines 92-97)
\* storage                  localStorage under STORAGE_KEY (lines 9, 31, 41)
\* now                      the wall clock, Date.now() (lines 18, 116)
\* effectPending            history changed and the effect of lines 100-103
\*                          has not run yet
\* last                     the operation that ran last (a history variable)
VARIABLES useUppercase, useLowercase, useNumbers, useSymbols, length,
          currentPassword, error, history, storage, now, effectPending, last

vars == <<useUppercase, useLowercase, useNumbers, useSymbols, length,
          currentPassword, error, history, storage, now, effectPending, last>>

(***************************************************************************)
(* Bounds of the exploration                                               *)
(***************************************************************************)
\* a generate action is explored from histories shorter than this
MaxHistory == 2

\* the longest collection the round trip is explored on
MaxCollection == 2

(***************************************************************************)
(* Numbers of the program                                                  *)
(***************************************************************************)
DAY_MS == 24 * 60 * 60 * 1000

\* a millisecond count, two limbs
Num(d, ms) == [d |-> d, ms |-> ms]

NaN == [d |-> 0, ms |-> -1]

IsNaN(t) == t.ms < 0

\* a - b on two-limb numbers
Minus(a, b) ==
  IF a.ms >= b.ms THEN Num(a.d - b.d, a.ms - b.ms)
                  ELSE Num(a.d - b.d - 1, a.ms - b.ms + DAY_MS)

\* a <= b on two-limb numbers
Leq(a, b) == a.d < b.d \/ (a.d = b.d /\ a.ms <= b.ms)

Less(a, b) == a.d < b.d \/ (a.d = b.d /\ a.ms < b.ms)

\* 30 * 24 * 60 * 60 * 1000
MAX_AGE_MS == Num(30, 0)

UPPERCASE == << "A","B","C","D","E","F","G","H","I","J","K","L","M",
                "N","O","P","Q","R","S","T","U","V","W","X","Y","Z" >>

LOWERCASE == << "a","b","c","d","e","f","g","h","i","j","k","l","m",
                "n","o","p","q","r","s","t","u","v","w","x","y","z" >>

NUMBERS == << "0","1","2","3","4","5","6","7","8","9" >>

SYMBOLS == << "!","@","#","$","%","^","&","*","(",")","_","+",
              "[","]","{","}","|",";",":",",",".","<",">","?" >>

NoCharTypeMessage == "Select at least one character type."

\* the value null of the error state
Null == "null"

(***************************************************************************)
(* Date: toISOString and the parse done by new Date(string).getTime()      *)
(***************************************************************************)
\* "YYYY-MM-DDTHH:mm:ss.sssZ": the date as a day number, then the clock
toISOString(t) ==
  [date |-> t.d,
   hh   |-> t.ms \div 3600000,
   mm   |-> (t.ms \div 60000) % 60,
   ss   |-> (t.ms \div 1000) % 60,
   sss  |-> t.ms % 1000]

\* new Date(s).getTime(): NaN for a string that is no date
DateParse(s) ==
  IF s.hh \in 0..23 /\ s.mm \in 0..59 /\ s.ss \in 0..59 /\ s.sss \in 0..999
  THEN Num(s.date, s.hh * 3600000 + s.mm * 60000 + s.ss * 1000 + s.sss)
  ELSE NaN

(***************************************************************************)
(* History store                                                           *)
(***************************************************************************)
\* a function that may throw returns [ok, val]; ok = FALSE is a throw
Return(v) == [ok |-> TRUE, val |-> v]

Throw(e) == [ok |-> FALSE, val |-> e]

\* the element null of a parsed array
JNull == [null |-> TRUE]

PasswordEntry(id, value, createdAt) ==
  [id |-> id, value |-> value, createdAt |-> createdAt]

\* a slip: the age taken as ts - now
Survives_Swapped(entry, t) ==
  LET ts == DateParse(entry.createdAt)
  IN  IF IsNaN(ts) THEN FALSE ELSE Leq(Minus(ts, t), MAX_AGE_MS)

\* a slip: < in place of <=
Survives_Strict(entry, t) ==
  LET ts == DateParse(entry.createdAt)
  IN  IF IsNaN(ts) THEN FALSE ELSE Less(Minus(t, ts), MAX_AGE_MS)

\* the filter callback of pruneOldPasswords
Survives(entry, t) ==
  LET ts == DateParse(entry.createdAt)
  IN  IF IsNaN(ts) THEN FALSE ELSE Leq(Minus(t, ts), MAX_AGE_MS)

\* reading entry.createdAt of null is a TypeError
pruneOldPasswords(entries, t) ==
  IF \E i \in 1..Len(entries) : entries[i] = JNull
  THEN Throw("TypeError")
  ELSE Return(SelectSeq(entries, LAMBDA entry : Survives(entry, t)))

\* a slip: a - b in place of b - a
Compare_OldestFirst(a, b) ==
  LET ta == DateParse(a.createdAt)
      tb == DateParse(b.createdAt)
  IN  IF IsNaN(ta) \/ IsNaN(tb) THEN 0
      ELSE IF Less(ta, tb) THEN -1
      ELSE IF Less(tb, ta) THEN 1
      ELSE 0

\* the comparator of sortByNewest, as its sign; NaN counts as 0
Compare(a, b) ==
  LET ta == DateParse(a.createdAt)
      tb == DateParse(b.createdAt)
  IN  IF IsNaN(ta) \/ IsNaN(tb) THEN 0
      ELSE IF Less(tb, ta) THEN -1
      ELSE IF Less(ta, tb) THEN 1
      ELSE 0

\* x placed into sorted s behind every element that does not order after it
RECURSIVE Insert(_, _)
Insert(x, s) ==
  IF s = <<>> THEN <<x>>
  ELSE IF Compare(Head(s), x) <= 0 THEN <<Head(s)>> \o Insert(x, Tail(s))
  ELSE <<x>> \o s

\* Array.prototype.sort on a copy: stable
RECURSIVE sortByNewest(_)
sortByNewest(entries) ==
  IF entries = <<>> THEN <<>>
  ELSE Insert(entries[Len(entries)],
              sortByNewest(SubSeq(entries, 1, Len(entries) - 1)))

JSONstringify(entries) ==
  [kind  |-> "array",
   items |-> [i \in 1..Len(entries) |->
                <<entries[i].id, entries[i].value, entries[i].createdAt>>]]

\* an item of a JSON array, parsed
ParseItem(item) ==
  IF item = <<>> THEN JNull ELSE PasswordEntry(item[1], item[2], item[3])

JSONparse(text) ==
  IF text.kind = "array"
  THEN Return([i \in 1..Len(text.items) |-> ParseItem(text.items[i])])
  ELSE IF text.kind = "object" THEN Return("object")
  ELSE Throw("SyntaxError")

\* localStorage under STORAGE_KEY: absent, or a text
Absent == [present |-> FALSE]

Stored(text) == [present |-> TRUE, text |-> text]

\* the body of loadHistory's try block
LoadTry(store, t) ==
  IF ~store.present \/ store.text.kind = "empty" THEN Return(<<>>)
  ELSE LET parsed == JSONparse(store.text)
       IN  IF ~parsed.ok THEN parsed
           ELSE IF store.text.kind # "array" THEN Throw("TypeError")
           ELSE LET pruned == pruneOldPasswords(parsed.val, t)
                IN  IF ~pruned.ok THEN pruned
                    ELSE Return(sortByNewest(pruned.val))

\* a slip: no catch
loadHistory_NoCatch(store, t) == LoadTry(store, t)

\* try { ... } catch { return []; }
loadHistory(store, t) ==
  LET r == LoadTry(store, t)
  IN  IF r.ok THEN r ELSE Return(<<>>)

\* a slip: an empty history is not written
saveHistory_SkipEmpty(entries) ==
  IF entries = <<>> THEN storage ELSE Stored(JSONstringify(entries))

\* localStorage.setItem(STORAGE_KEY, JSON.stringify(entries))
saveHistory(entries) == Stored(JSONstringify(entries))

(***************************************************************************)
(* Generator                                                               *)
(***************************************************************************)
\* One outcome of the random source.  crypto = TRUE: getRandomValues filled
\* arr[0] with a * 65536 + b.  crypto = FALSE: Math.random() returned a / b.
Draw(crypto, a, b) == [crypto |-> crypto, a |-> a, b |-> b]

\* a slip: Math.round in place of Math.floor
getRandomInt_Round(max, draw) ==
  IF draw.crypto
  THEN (((draw.a % max) * (65536 % max)) + draw.b) % max
  ELSE (2 * draw.a * max + draw.b) \div (2 * draw.b)

getRandomInt(max, draw) ==
  IF draw.crypto
  THEN (((draw.a % max) * (65536 % max)) + draw.b) % max
  ELSE (draw.a * max) \div draw.b

\* the i-th draw (from 0) of a tape, which repeats
TapeAt(tape, i) == tape[(i % Len(tape)) + 1]

\* all[idx]; undefined appends the text "undefined"
CharAt(all, idx) ==
  IF idx + 1 \in DOMAIN all THEN all[idx + 1] ELSE "undefined"

Options(len, up, low, num, sym) ==
  [length |-> len, useUppercase |-> up, useLowercase |-> low,
   useNumbers |-> num, useSymbols |-> sym]

\* pools.join('')
Pools(opts) ==
  (IF opts.useUppercase THEN UPPERCASE ELSE <<>>) \o
  (IF opts.useLowercase THEN LOWERCASE ELSE <<>>) \o
  (IF opts.useNumbers THEN NUMBERS ELSE <<>>) \o
  (IF opts.useSymbols THEN SYMBOLS ELSE <<>>)

\* a slip: no class selected falls back to the uppercase letters
generatePassword_DefaultUpper(opts, tape) ==
  LET all == IF Pools(opts) = <<>> THEN UPPERCASE ELSE Pools(opts)
  IN  Return([i \in 1..opts.length |->
                CharAt(all, getRandomInt(Len(all), TapeAt(tape, i - 1)))])

generatePassword(opts, tape) ==
  LET all == Pools(opts)
  IN  IF all = <<>> THEN Throw(NoCharTypeMessage)
      ELSE Return([i \in 1..opts.length |->
                     CharAt(all, getRandomInt(Len(all), TapeAt(tape, i - 1)))])

(***************************************************************************)
(* Inputs of the exploration                                               *)
(***************************************************************************)
\* wall-clock instants: a start, 1 ms later, exactly 30 days later, 30 days
\* and 1 ms later
Instants == { Num(40, 0), Num(40, 1), Num(70, 0), Num(70, 1) }

StartInstant == Num(40, 0)

\* outcomes of Math.random().toString(36).slice(2, 8)
Suffixes == { "k3x9qa", "0f7zb1" }

\* random tapes: arr[0] = 0, arr[0] = 2^32 - 1, arr[0] alternating 25 and
\* 65536 * 7 + 61, and Math.random() alternating 0 and 999 / 1000
RandomTapes ==
  { << Draw(TRUE, 0, 0) >>,
    << Draw(TRUE, 65535, 65535) >>,
    << Draw(TRUE, 0, 25), Draw(TRUE, 7, 61) >>,
    << Draw(FALSE, 0, 1), Draw(FALSE, 999, 1000) >> }

\* values of Number(e.target.value); NaN is NotANumber
NotANumber == "NaN"

LengthInputs == { "NaN", "3", "5", "100" }

NumberOf(value) ==
  CASE value = "3" -> 3 [] value = "5" -> 5 [] value = "100" -> 100

\* entries found in storage at startup, by age at StartInstant
StoredEntry(n, t) ==
  <<  <<toISOString(t), "stored">>, <<"p", "w", n>>, toISOString(t) >>

EntryAged10d == StoredEntry("1", Num(30, 0))

EntryAged30d == StoredEntry("2", Num(10, 0))

EntryAged30d1s == StoredEntry("3", Num(9, DAY_MS - 1000))

EntryAhead1d == StoredEntry("4", Num(41, 0))

\* createdAt is no date: hour 99
BadDate == [date |-> 30, hh |-> 99, mm |-> 0, ss |-> 0, sss |-> 0]

EntryBadDate == << <<BadDate, "stored">>, <<"p", "w", "5">>, BadDate >>

InitialStorage ==
  { Absent,
    Stored([kind |-> "empty", items |-> <<>>]),
    Stored([kind |-> "syntax", items |-> <<>>]),
    Stored([kind |-> "object", items |-> <<>>]),
    Stored([kind |-> "array", items |-> << EntryAged10d, <<>> >>]),
    Stored([kind |-> "array", items |-> <<>>]),
    Stored([kind |-> "array", items |-> << EntryAged30d, EntryAged10d >>]),
    Stored([kind |-> "array", items |-> << EntryBadDate, EntryAged30d1s >>]),
    Stored([kind |-> "array", items |-> << EntryAged10d, EntryAhead1d >>]),
    Stored([kind |-> "array", items |-> << EntryBadDate, EntryAged10d >>]) }

\* an id that no entry has
AbsentId == << toISOString(Num(0, 0)), "absent" >>

(***************************************************************************)
(* The App component                                                       *)
(***************************************************************************)
CurrentOptions ==
  Options(length, useUppercase, useLowercase, useNumbers, useSymbols)

\* the operation that ran last, whether it returned normally, its argument
Last(op, ok, arg) == [op |-> op, ok |-> ok, arg |-> arg]

optionVars == <<useUppercase, useLowercase, useNumbers, useSymbols, length>>

\* the first render: useState initial values, history from loadHistory();
\* the persistence effect is then due
Mounted(store, t) ==
  /\ useUppercase' = TRUE
  /\ useLowercase' = TRUE
  /\ useNumbers' = TRUE
  /\ useSymbols' = TRUE
  /\ length' = 16
  /\ currentPassword' = <<>>
  /\ error' = Null
  /\ history' = loadHistory(store, t).val
  /\ effectPending' = TRUE
  /\ last' = Last("mount", loadHistory(store, t).ok, "none")

Init ==
  /\ storage \in InitialStorage
  /\ now = StartInstant
  /\ useUppercase = TRUE
  /\ useLowercase = TRUE
  /\ useNumbers = TRUE
  /\ useSymbols = TRUE
  /\ length = 16
  /\ currentPassword = <<>>
  /\ error = Null
  /\ history = loadHistory(storage, now).val
  /\ effectPending = TRUE
  /\ last = Last("mount", loadHistory(storage, now).ok, "none")

\* the page is loaded again: a new App over the same storage
Mount ==
  /\ ~effectPending
  /\ Mounted(storage, now)
  /\ UNCHANGED <<storage, now>>

\* useEffect(() => saveHistory(history), [history])
PersistEffect ==
  /\ effectPending
  /\ storage' = saveHistory(history)
  /\ effectPending' = FALSE
  /\ UNCHANGED <<optionVars, currentPassword, error, history, now, last>>

\* the try block of handleGenerate after generatePassword returned pwd
GenerateTry(pwd, suffix) ==
  LET iso      == toISOString(now)
      newEntry == PasswordEntry(<<iso, suffix>>, pwd, iso)
      next     == sortByNewest(pruneOldPasswords(<<newEntry>> \o history, now).val)
  IN  /\ currentPassword' = pwd
      /\ history' = next
      /\ effectPending' = TRUE
      /\ error' = Null

\* a slip: the catch block also clears the current password
GenerateCatch_ClearsPassword(message) ==
  /\ error' = message
  /\ currentPassword' = <<>>
  /\ UNCHANGED <<history, effectPending>>

\* the catch block of handleGenerate; setError(null) came first
GenerateCatch(message) ==
  /\ error' = message
  /\ UNCHANGED <<currentPassword, history, effectPending>>

handleGenerate(tape, suffix) ==
  LET r == generatePassword(CurrentOptions, tape)
  IN  /\ ~effectPending
      /\ IF r.ok THEN GenerateTry(r.val, suffix) ELSE GenerateCatch(r.val)
      /\ last' = Last("generate", r.ok, "none")
      /\ UNCHANGED <<optionVars, storage, now>>

\* prev.filter((entry) => entry.id !== id)
RemoveById(prev, id) == SelectSeq(prev, LAMBDA entry : entry.id # id)

handleDelete(id) ==
  /\ ~effectPending
  /\ history' = RemoveById(history, id)
  /\ effectPending' = TRUE
  /\ last' = Last("delete", TRUE, id)
  /\ UNCHANGED <<optionVars, currentPassword, error, storage, now>>

\* Math.min(64, Math.max(4, value))
Clamp(value) ==
  LET lo == IF value > 4 THEN value ELSE 4
  IN  IF lo < 64 THEN lo ELSE 64

handleLengthChange(value) ==
  /\ ~effectPending
  /\ length' = IF value = NotANumber THEN length ELSE Clamp(NumberOf(value))
  /\ last' = Last("length", TRUE, "none")
  /\ UNCHANGED <<useUppercase, useLowercase, useNumbers, useSymbols,
                 currentPassword, error, history, storage, now, effectPending>>

setUseUppercase(checked) ==
  /\ ~effectPending
  /\ useUppercase' = checked
  /\ last' = Last("option", TRUE, "none")
  /\ UNCHANGED <<useLowercase, useNumbers, useSymbols, length,
                 currentPassword, error, history, storage, now, effectPending>>

setUseLowercase(checked) ==
  /\ ~effectPending
  /\ useLowercase' = checked
  /\ last' = Last("option", TRUE, "none")
  /\ UNCHANGED <<useUppercase, useNumbers, useSymbols, length,
                 currentPassword, error, history, storage, now, effectPending>>

setUseNumbers(checked) ==
  /\ ~effectPending
  /\ useNumbers' = checked
  /\ last' = Last("option", TRUE, "none")
  /\ UNCHANGED <<useUppercase, useLowercase, useSymbols, length,
                 currentPassword, error, history, storage, now, effectPending>>

setUseSymbols(checked) ==
  /\ ~effectPending
  /\ useSymbols' = checked
  /\ last' = Last("option", TRUE, "none")
  /\ UNCHANGED <<useUppercase, useLowercase, useNumbers, length,
                 currentPassword, error, history, storage, now, effectPending>>

\* wall-clock time passes
Tick(t) ==
  /\ Less(now, t)
  /\ now' = t
  /\ last' = Last("tick", TRUE, last.arg)
  /\ UNCHANGED <<optionVars, currentPassword, error, history, storage,
                 effectPending>>

Ids(entries) == { entries[i].id : i \in 1..Len(entries) }

\* the history store under the default options
Next ==
  \/ Mount
  \/ PersistEffect
  \/ /\ Len(history) < MaxHistory
     /\ \E tape \in RandomTapes, suffix \in Suffixes : handleGenerate(tape, suffix)
  \/ \E id \in Ids(history) \cup {AbsentId} : handleDelete(id)
  \/ \E t \in Instants : Tick(t)

Spec == Init /\ [][Next]_vars

\* the generator under every option, from an empty history at one instant
InitGen == Init /\ storage = Absent

NextGen ==
  \/ PersistEffect
  \/ /\ history = <<>> \/ Pools(CurrentOptions) = <<>>
     /\ \E tape \in RandomTapes, suffix \in Suffixes : handleGenerate(tape, suffix)
  \/ \E value \in LengthInputs : handleLengthChange(value)
  \/ \E checked \in BOOLEAN : setUseUppercase(checked)
  \/ \E checked \in BOOLEAN : setUseLowercase(checked)
  \/ \E checked \in BOOLEAN : setUseNumbers(checked)
  \/ \E checked \in BOOLEAN : setUseSymbols(checked)

SpecGen == InitGen /\ [][NextGen]_vars

\* saveHistory(c), then loadHistory() at any later instant, for any collection
\* c of entries: valid, expired, on the boundary, ahead of the clock, no date
EntryPool ==
  { ParseItem(item) : item \in { EntryAged10d, EntryAged30d, EntryAged30d1s,
                                 EntryAhead1d, EntryBadDate } }

Collections == UNION { [1..n -> EntryPool] : n \in 0..MaxCollection }

InitRT ==
  /\ history \in Collections
  /\ storage = Absent
  /\ now = StartInstant
  /\ useUppercase = TRUE
  /\ useLowercase = TRUE
  /\ useNumbers = TRUE
  /\ useSymbols = TRUE
  /\ length = 16
  /\ currentPassword = <<>>
  /\ error = Null
  /\ effectPending = TRUE
  /\ last = Last("collection", TRUE, history)

\* const loaded = loadHistory()
RoundTripLoad ==
  /\ ~effectPending
  /\ last.op \in {"collection", "tick"}
  /\ history' = loadHistory(storage, now).val
  /\ last' = Last("load", loadHistory(storage, now).ok, last.arg)
  /\ UNCHANGED <<optionVars, currentPassword, error, storage, now, effectPending>>

NextRT ==
  \/ PersistEffect
  \/ \E t \in Instants : Tick(t)
  \/ RoundTripLoad

SpecRT == InitRT /\ [][NextRT]_vars

(***************************************************************************)
(* Properties                                                              *)
(***************************************************************************)
Range(seq) == { seq[i] : i \in DOMAIN seq }

\* the instant createdAt denotes is at most 30 days before t
Unexpired(entry, t) ==
  /\ ~IsNaN(DateParse(entry.createdAt))
  /\ Leq(Minus(t, DateParse(entry.createdAt)), Num(30, 0))

\* the objects of the stored text, when it is an array
StoredObjects ==
  IF storage.present /\ storage.text.kind = "array"
  THEN { PasswordEntry(item[1], item[2], item[3]) :
           item \in { x \in Range(storage.text.items) : x # <<>> } }
  ELSE {}

AllFlagsOff == ~useUppercase /\ ~useLowercase /\ ~useNumbers /\ ~useSymbols

\* the union of the enabled classes' alphabets
EnabledAlphabet ==
  (IF useUppercase THEN Range(UPPERCASE) ELSE {}) \cup
  (IF useLowercase THEN Range(LOWERCASE) ELSE {}) \cup
  (IF useNumbers THEN Range(NUMBERS) ELSE {}) \cup
  (IF useSymbols THEN Range(SYMBOLS) ELSE {})

\* C1: a generate action with at least one class enabled and a length in
\* [4, 64] returns, for every random tape, a password of exactly `length`
\* characters, each from the union of the enabled classes' alphabets.
C1_LengthAndAlphabet ==
  (last.op = "generate" /\ ~AllFlagsOff /\ length \in 4..64) =>
    /\ last.ok
    /\ Len(currentPassword) = length
    /\ \A i \in 1..Len(currentPassword) : currentPassword[i] \in EnabledAlphabet

\* a 64-character password of digits and symbols only, not all alike
C1_Witness ==
  /\ last.op = "generate" /\ last.ok
  /\ ~useUppercase /\ ~useLowercase /\ useNumbers /\ useSymbols
  /\ length = 64 /\ Len(currentPassword) = 64
  /\ currentPassword[1] # currentPassword[2]

\* C2 as stated: once persistence has run, every entry of the history and of
\* storage is at most 30 days old, whatever time has passed.
C2_NeverOlderThan30Days ==
  ~effectPending =>
    /\ \A entry \in Range(history) : Unexpired(entry, now)
    /\ \A entry \in StoredObjects : Unexpired(entry, now)

\* C2 amended: right after the startup load or a successful generate action,
\* at that operation's wall-clock time, every entry of the history is at most
\* 30 days old, and so is every stored entry once the persistence effect ran.
C2_FreshAfterLoadOrGenerate ==
  (last.op \in {"mount", "generate"} /\ last.ok) =>
    /\ \A entry \in Range(history) : Unexpired(entry, now)
    /\ ~effectPending => \A entry \in StoredObjects : Unexpired(entry, now)

\* a generate action 30 days and 1 ms after an earlier one: the history holds
\* the new entry only, storage still holds the expired one
C2_Witness ==
  /\ last.op = "generate" /\ effectPending
  /\ now = Num(70, 1)
  /\ Len(history) = 1
  /\ history[1].createdAt = toISOString(now)
  /\ \E entry \in StoredObjects : entry.createdAt = toISOString(Num(40, 0))

\* C3: no two entries of the history have the same id.
C3_UniqueIds ==
  \A i, j \in 1..Len(history) : i # j => history[i].id # history[j].id

\* C4: the history is newest-first: no entry stands behind one whose
\* createdAt is an earlier instant.
C4_NewestFirst ==
  \A i, j \in 1..Len(history) :
    i < j => ~Less(DateParse(history[i].createdAt), DateParse(history[j].createdAt))

\* a generate action put the new entry behind a stored entry dated ahead
C4_Witness ==
  /\ last.op = "generate"
  /\ Len(history) = 2
  /\ history[2].createdAt = toISOString(now)
  /\ Less(now, DateParse(history[1].createdAt))

\* C5: a generate action with all four flags false fails with the message
\* 'Select at least one character type.', which becomes the error state.
C5_NoClassFails ==
  (last.op = "generate" /\ AllFlagsOff) =>
    /\ ~last.ok
    /\ error = NoCharTypeMessage

C5_Witness ==
  /\ last.op = "generate" /\ AllFlagsOff
  /\ length = 64
  /\ error = NoCharTypeMessage

\* C6: a generate action that fails leaves the history, storage and the
\* current password (and the options, the clock, the pending effect) as they
\* were; only the error state changes.
C6_FailedGenerateFrame ==
  [][(last'.op = "generate" /\ ~last'.ok) =>
       UNCHANGED <<history, storage, currentPassword, optionVars, now,
                   effectPending>>]_vars

\* a failed generate action over a non-empty, persisted history
C6_Witness ==
  /\ last.op = "generate" /\ ~last.ok
  /\ error = NoCharTypeMessage
  /\ Len(history) = 1
  /\ currentPassword = history[1].value
  /\ storage = Stored([kind |-> "array",
                       items |-> << <<history[1].id, history[1].value,
                                      history[1].createdAt>> >>])

\* C7: a delete action by an id the history holds yields a history one
\* shorter, without that id, the other entries in their order; by an id the
\* history does not hold it yields an equal history.
C7_DeleteRemovesOne ==
  [][last'.op = "delete" =>
       IF \E i \in 1..Len(history) : history[i].id = last'.arg
       THEN /\ Len(history') = Len(history) - 1
            /\ \A i \in 1..Len(history') : history'[i].id # last'.arg
            /\ \E k \in 1..Len(history) :
                 history' = SubSeq(history, 1, k - 1) \o
                            SubSeq(history, k + 1, Len(history))
       ELSE history' = history]_vars

\* C8: saveHistory(c) followed by loadHistory() at `now` yields, as a set,
\* the entries of c whose createdAt is a date at most 30 days before `now`.
C8_RoundTrip ==
  last.op = "load" =>
    /\ last.ok
    /\ Range(history) = { entry \in Range(last.arg) : Unexpired(entry, now) }

\* c = [no date, exactly 30 days old] loads as the 30-day-old entry alone
C8_Witness ==
  /\ last.op = "load"
  /\ now = StartInstant
  /\ last.arg = << ParseItem(EntryBadDate), ParseItem(EntryAged30d) >>
  /\ history = << ParseItem(EntryAged30d) >>

\* the stored text is no sequence of entries
Malformed ==
  /\ storage.present
  /\ \/ storage.text.kind # "array"
     \/ \E i \in 1..Len(storage.text.items) : storage.text.items[i] = <<>>

\* C9: loadHistory never raises; absent or malformed storage loads as the
\* empty history; a well-formed sequence loads as its entries that have a
\* valid createdAt and are unexpired.
C9_LoadTolerates ==
  (last.op = "mount" /\ effectPending) =>
    /\ last.ok
    /\ (~storage.present \/ Malformed) => history = <<>>
    /\ (storage.present /\ ~Malformed) =>
         Range(history) = { entry \in StoredObjects : Unexpired(entry, now) }

\* [no date, 10 days old] loads as the 10-day-old entry alone
C9_Witness ==
  /\ last.op = "mount" /\ effectPending
  /\ storage = Stored([kind |-> "array", items |-> << EntryBadDate, EntryAged10d >>])
  /\ history = << ParseItem(EntryAged10d) >>

\* C10: once the persistence effect has run, storage holds the serialization
\* of exactly the in-memory history.
C10_StorageFollowsHistory ==
  ~effectPending =>
    /\ storage.present
    /\ storage.text.kind = "array"
    /\ Len(storage.text.items) = Len(history)
    /\ \A i \in 1..Len(history) :
         storage.text.items[i] =
           <<history[i].id, history[i].value, history[i].createdAt>>

\* the startup load found nothing to keep and storage now holds "[]"
C10_Witness ==
  /\ ~effectPending
  /\ last.op = "mount"
  /\ history = <<>>
  /\ storage = Stored([kind |-> "array", items |-> <<>>])

====
